---- MODULE Spec2Model ----
(***************************************************************************)
(* PDF Metadata Extraction API (Hono): the POST /extract handler of        *)
(* src/src/index.ts and the Zod schema of src/src/schema.ts.               *)
(*                                                                         *)
(* The handler is an async function: the code between two awaits runs to   *)
(* completion on the single JavaScript thread, so each action below is one *)
(* such stretch of code, resumed when the awaited collaborator settles.    *)
(* pdf-parse (Text Extractor) and generateObject (Metadata Generator) are  *)
(* external: what they return or throw is a nondeterministic choice.       *)
(*                                                                         *)
(* Strings whose length matters (the extracted text) are run-length        *)
(* encoded sequences of UTF-16 code units, so that the 15,000 limit of the *)
(* source is kept as it is.  File names are sequences of characters.       *)
(***************************************************************************)
EXTENDS Integers, Sequences, FiniteSets

VARIABLES
    pc,        \* per request: where the handler is suspended
    form,      \* per request: the multipart body as sent by the client
    file,      \* per request: const file = body["file"]
    pdfData,   \* per request: const pdfData = await pdf(buffer)
    prompt,    \* per request: the prompt handed to generateObject
    result,    \* per request: const result = await generateObject(...)
    error,     \* per request: the value caught by catch (error)
    response,  \* per request: the HTTP response sent
    trace      \* per request: the stages run so far, in order (history)

vars == <<pc, form, file, pdfData, prompt, result, error, response, trace>>

-----------------------------------------------------------------------------
(* Bounds of the model *)

NumReqs == 2       \* requests handled concurrently
MaxNameLen == 5    \* characters in an uploaded file's name
MaxRuns == 2       \* runs of equal code units in an extracted text
MaxTopics == 6     \* entries in a generated topics list
MaxKeywords == 11  \* entries in a generated keywords list

Reqs == 1..NumReqs

-----------------------------------------------------------------------------
(* JavaScript strings *)

\* String.prototype.toLowerCase on one character
ToLowerChar(ch) ==
    CASE ch = "P" -> "p"
      [] ch = "D" -> "d"
      [] ch = "F" -> "f"
      [] ch = "T" -> "t"
      [] ch = "X" -> "x"
      [] OTHER -> ch

\* String.prototype.toLowerCase
ToLowerCase(s) == [i \in 1..Len(s) |-> ToLowerChar(s[i])]

\* String.prototype.endsWith
EndsWith(s, suffix) ==
    /\ Len(suffix) <= Len(s)
    /\ SubSeq(s, Len(s) - Len(suffix) + 1, Len(s)) = suffix

DotPdf == <<".", "p", "d", "f">>

\* file.name is a string, or undefined
NoName == [defined |-> FALSE, chars |-> <<>>]
Name(s) == [defined |-> TRUE, chars |-> s]

\* a type check that compares the name as it is
IsPdfNameCaseSensitive(name) ==
    /\ name.defined
    /\ EndsWith(name.chars, DotPdf)

\* file.name?.toLowerCase().endsWith(".pdf"): undefined when name is undefined,
\* and !undefined is true
IsPdfName(name) ==
    /\ name.defined
    /\ EndsWith(ToLowerCase(name.chars), DotPdf)

(* A text is a sequence of runs [ch, n]: the code unit ch repeated n >= 1 times *)

WhiteSpace == {" ", "\n"}

RECURSIVE TextLength(_)
\* String.prototype.length, in UTF-16 code units
TextLength(t) == IF t = <<>> THEN 0 ELSE Head(t).n + TextLength(Tail(t))

RECURSIVE SliceFromStart(_, _)
\* String.prototype.slice(0, k)
SliceFromStart(t, k) ==
    IF t = <<>> \/ k <= 0 THEN <<>>
    ELSE IF Head(t).n <= k
         THEN <<Head(t)>> \o SliceFromStart(Tail(t), k - Head(t).n)
         ELSE <<[ch |-> Head(t).ch, n |-> k]>>

RECURSIVE TrimStart(_)
TrimStart(t) ==
    IF t # <<>> /\ Head(t).ch \in WhiteSpace THEN TrimStart(Tail(t)) ELSE t

RECURSIVE TrimEnd(_)
TrimEnd(t) ==
    IF t # <<>> /\ t[Len(t)].ch \in WhiteSpace
    THEN TrimEnd(SubSeq(t, 1, Len(t) - 1))
    ELSE t

\* String.prototype.trim
Trim(t) == TrimEnd(TrimStart(t))

PromptLimit == 15000

\* an emptiness check that does not trim
NoTextUntrimmed(t) == t = <<>>

\* !extractedText || extractedText.trim().length === 0
NoText(t) == t = <<>> \/ TextLength(Trim(t)) = 0

-----------------------------------------------------------------------------
(* JSON values of the generated object: [type, str, items] *)

JStr(s) == [type |-> "string", str |-> s, items |-> <<>>]
JNull == [type |-> "null", str |-> "", items |-> <<>>]
JNum == [type |-> "number", str |-> "", items |-> <<>>]
JUndefined == [type |-> "undefined", str |-> "", items |-> <<>>]
JArr(xs) == [type |-> "array", str |-> "", items |-> xs]

DocumentTypes ==
    {"report", "article", "letter", "contract", "manual", "presentation",
     "academic_paper", "invoice", "resume", "other"}

\* z.string()
ZString(v) == v.type = "string"

\* z.string().nullable()
ZNullableString(v) == v.type \in {"string", "null"}

\* z.array(z.string())
ZStringArray(v) ==
    /\ v.type = "array"
    /\ \A i \in 1..Len(v.items) : ZString(v.items[i])

\* a documentType declared z.string()
ZEnumAnyString(v) == v.type = "string"

\* z.enum([...])
ZEnum(v) == v.type = "string" /\ v.str \in DocumentTypes

\* documentMetadataSchema: z.object({...})
documentMetadataSchema(o) ==
    /\ ZString(o.title)
    /\ ZNullableString(o.author)
    /\ ZString(o.summary)
    /\ ZStringArray(o.topics)
    /\ ZStringArray(o.keywords)
    /\ ZEnum(o.documentType)

-----------------------------------------------------------------------------
(* Values of the handler's locals before they are assigned *)

Undefined == [kind |-> "undefined", value |-> "", name |-> NoName, bytes |-> ""]
StringField(s) == [kind |-> "string", value |-> s, name |-> NoName, bytes |-> ""]
File(name, bytes) == [kind |-> "File", value |-> "", name |-> name, bytes |-> bytes]

NoForm == [wellFormed |-> TRUE, file |-> Undefined]
NoPdfData == [text |-> <<>>, numpages |-> 0]
NoPrompt == [head |-> "", doc |-> <<>>, tail |-> ""]
NoObject ==
    [title |-> JUndefined, author |-> JUndefined, summary |-> JUndefined,
     topics |-> JUndefined, keywords |-> JUndefined, documentType |-> JUndefined]
NoError == [isError |-> FALSE, message |-> ""]
NoResponse == [status |-> 0, body |-> [error |-> <<>>]]

-----------------------------------------------------------------------------
(* The inputs a specification draws from *)

NameChars == {".", "p", "P", "d", "D", "f", "F"}
AllNames ==
    {NoName} \cup {Name(s) : s \in UNION {[1..n -> NameChars] : n \in 0..MaxNameLen}}
FewNames == {NoName, Name(<<"t", ".", "T", "X", "T">>), Name(<<"a", ".", "P", "d", "F">>)}
TwoNames == {Name(<<"t", ".", "t", "x", "t">>), Name(<<"a", ".", "p", "d", "f">>)}
Contents == {"%PDF-1.7", "PK-zip"}

FormsOf(names, contents) ==
    {[wellFormed |-> FALSE, file |-> Undefined]}
    \cup {[wellFormed |-> TRUE, file |-> f] :
            f \in {Undefined, StringField(""), StringField("report.pdf")}
                  \cup {File(nm, b) : nm \in names, b \in contents}}

TextChars == {"a", "b", " ", "\n"}
RunLengths == {1, 14999, 15000, 15001}
Runs == [ch : TextChars, n : RunLengths]
AllTexts == UNION {[1..k -> Runs] : k \in 0..MaxRuns}
FewTexts ==
    { <<>>,
      <<[ch |-> " ", n |-> 1], [ch |-> "\n", n |-> 1]>>,
      <<[ch |-> "a", n |-> 1], [ch |-> " ", n |-> 1]>>,
      <<[ch |-> "a", n |-> 15000], [ch |-> "b", n |-> 1]>> }
TwoTexts ==
    { <<[ch |-> " ", n |-> 1]>>,
      <<[ch |-> "a", n |-> 15000], [ch |-> "b", n |-> 1]>> }
PageCounts == {1, 5}

StringList(n) == JArr([i \in 1..n |-> JStr("s")])
AllObjects ==
    [title : {JStr("Policy"), JUndefined},
     author : {JStr("Acme"), JNull, JNum},
     summary : {JStr("About.")},
     topics : {StringList(n) : n \in 0..MaxTopics}
              \cup {JArr(<<JStr("s"), JNum, JStr("s")>>), JStr("s")},
     keywords : {StringList(n) : n \in 0..MaxKeywords}
                \cup {JArr(<<JNum>>)},
     documentType : {JStr(d) : d \in DocumentTypes \cup {"memo"}} \cup {JNull}]
GoodObject ==
    [title |-> JStr("Policy"), author |-> JNull, summary |-> JStr("About."),
     topics |-> StringList(3), keywords |-> StringList(5),
     documentType |-> JStr("report")]
FewObjects ==
    { GoodObject,
      [GoodObject EXCEPT !.documentType = JStr("memo")],
      [GoodObject EXCEPT !.topics = StringList(2)] }
TwoObjects == {GoodObject, [GoodObject EXCEPT !.documentType = JStr("memo")]}

Errors ==
    { [isError |-> TRUE, message |-> "Invalid PDF structure"],
      [isError |-> FALSE, message |-> "socket hang up"] }

\* u.reqs: the requests that arrive; the other fields: what clients send and
\* what the collaborators may answer
Universe(reqs, names, contents, texts, pages, objects) ==
    [reqs |-> reqs, forms |-> FormsOf(names, contents), texts |-> texts,
     pages |-> pages, objects |-> objects, errors |-> Errors]

-----------------------------------------------------------------------------
(* The history of a request *)

Done(r) == pc[r] = "done"
Ran(r, stage) == \E i \in 1..Len(trace[r]) : trace[r][i] = stage

-----------------------------------------------------------------------------
(* POST /extract *)

\* c.json(body, status); the status defaults to 200
Json(body, status) == [status |-> status, body |-> body]

MissingFileMessage ==
    <<"No PDF file uploaded. Please upload a file with field name \"file\".">>
UnsupportedMessage ==
    <<"Only PDF files are accepted. Please upload a .pdf file.">>
NoTextMessage ==
    <<"Could not extract text from PDF. The file may be scanned or image-based.">>

\* a presence check that only tests !file
FileMissingFalsyOnly(f) ==
    \/ f.kind = "undefined"
    \/ (f.kind = "string" /\ f.value = "")

\* !file || typeof file === "string"
FileMissing(f) ==
    \/ f.kind = "undefined"
    \/ (f.kind = "string" /\ f.value = "")
    \/ f.kind = "string"

PromptHead ==
    "Analyze the following document text and extract metadata.\n\nDocument text:\n---\n"
PromptTail == "\n---"

\* a prompt built from the whole text
BuildPromptUncut(extractedText) ==
    [head |-> PromptHead, doc |-> extractedText, tail |-> PromptTail]

\* the template literal passed as prompt: the parts are concatenated in order
BuildPrompt(extractedText) ==
    [head |-> PromptHead,
     doc |-> SliceFromStart(extractedText, PromptLimit),
     tail |-> PromptTail]

\* an envelope built from the text that was sent to the generator
EnvelopeOfPromptText(object, data) ==
    [status |-> 200,
     body |-> [success |-> TRUE,
               metadata |-> object,
               rawText |-> SliceFromStart(data.text, PromptLimit),
               stats |-> [pageCount |-> data.numpages,
                          textLength |-> TextLength(SliceFromStart(data.text, PromptLimit))]]]

\* the envelope of a successful response
Envelope(object, data) ==
    Json([success |-> TRUE,
          metadata |-> object,
          rawText |-> data.text,
          stats |-> [pageCount |-> data.numpages,
                     textLength |-> TextLength(data.text)]],
         200)

\* a catch block that reports no cause
CatchResponseGeneric(e) ==
    [status |-> 500, body |-> [error |-> <<"Failed to process PDF">>]]

\* catch (error) { ... }: `Failed to process PDF: ${message}`
CatchResponse(e) ==
    LET message == IF e.isError THEN e.message ELSE "Unknown error occurred"
    IN  Json([error |-> <<"Failed to process PDF: ", message>>], 500)

\* the handler of request r ends with response resp, after the stages `stages`
Respond(r, resp, stages) ==
    /\ response' = [response EXCEPT ![r] = resp]
    /\ trace' = [trace EXCEPT ![r] = @ \o stages]
    /\ pc' = [pc EXCEPT ![r] = "done"]

\* the handler of request r throws e inside the try block
Throw(r, e) ==
    /\ error' = [error EXCEPT ![r] = e]
    /\ Respond(r, CatchResponse(e), <<"catch">>)

\* a request arrives; the handler starts and awaits c.req.parseBody()
Receive(r, u) ==
    /\ r \in u.reqs
    /\ pc[r] = "idle"
    /\ \E f \in u.forms : form' = [form EXCEPT ![r] = f]
    /\ pc' = [pc EXCEPT ![r] = "parseBody"]
    /\ trace' = [trace EXCEPT ![r] = <<"parseBody">>]
    /\ UNCHANGED <<file, pdfData, prompt, result, error, response>>

\* parseBody() resolves: presence check, type check, then file.arrayBuffer()
ParseBodyReturn(r) ==
    /\ pc[r] = "parseBody"
    /\ form[r].wellFormed
    /\ LET f == form[r].file IN
        /\ file' = [file EXCEPT ![r] = f]
        /\ IF FileMissing(f)
           THEN Respond(r, Json([error |-> MissingFileMessage], 400), <<"presence">>)
           ELSE IF ~IsPdfName(f.name)
           THEN Respond(r, Json([error |-> UnsupportedMessage], 400),
                        <<"presence", "type">>)
           ELSE /\ pc' = [pc EXCEPT ![r] = "arrayBuffer"]
                /\ trace' = [trace EXCEPT ![r] = @ \o <<"presence", "type", "arrayBuffer">>]
                /\ UNCHANGED response
    /\ UNCHANGED <<form, pdfData, prompt, result, error>>

\* parseBody() rejects: the body is no well-formed multipart form
ParseBodyThrow(r) ==
    /\ pc[r] = "parseBody"
    /\ ~form[r].wellFormed
    /\ Throw(r, [isError |-> TRUE, message |-> "Failed to parse body as FormData."])
    /\ UNCHANGED <<form, file, pdfData, prompt, result>>

\* file.arrayBuffer() resolves: Buffer.from, then pdf(buffer) is called
ArrayBufferReturn(r) ==
    /\ pc[r] = "arrayBuffer"
    /\ pc' = [pc EXCEPT ![r] = "pdf"]
    /\ trace' = [trace EXCEPT ![r] = @ \o <<"pdf">>]
    /\ UNCHANGED <<form, file, pdfData, prompt, result, error, response>>

\* pdf(buffer) resolves: emptiness check, then generateObject is called
PdfReturn(r, u) ==
    /\ pc[r] = "pdf"
    /\ \E t \in u.texts, n \in u.pages :
        LET data == [text |-> t, numpages |-> n] IN
        /\ pdfData' = [pdfData EXCEPT ![r] = data]
        /\ IF NoText(data.text)
           THEN /\ Respond(r, Json([error |-> NoTextMessage], 422), <<"emptiness">>)
                /\ UNCHANGED prompt
           ELSE /\ prompt' = [prompt EXCEPT ![r] = BuildPrompt(data.text)]
                /\ pc' = [pc EXCEPT ![r] = "generateObject"]
                /\ trace' = [trace EXCEPT ![r] = @ \o <<"emptiness", "generateObject">>]
                /\ UNCHANGED response
    /\ UNCHANGED <<form, file, result, error>>

\* a handler that calls pdf(buffer) a second time when the first call rejects
PdfThrowRetry(r, u) ==
    /\ pc[r] = "pdf"
    /\ IF Len(SelectSeq(trace[r], LAMBDA x : x = "pdf")) < 2
       THEN /\ trace' = [trace EXCEPT ![r] = @ \o <<"pdf">>]
            /\ UNCHANGED <<pc, error, response>>
       ELSE \E e \in u.errors : Throw(r, e)
    /\ UNCHANGED <<form, file, pdfData, prompt, result>>

\* pdf(buffer) rejects
PdfThrow(r, u) ==
    /\ pc[r] = "pdf"
    /\ \E e \in u.errors : Throw(r, e)
    /\ UNCHANGED <<form, file, pdfData, prompt, result>>

\* a handler that keeps pdfData in a variable of the module, which the
\* request that last reached pdf(buffer) has overwritten
GenerateReturnSharedData(r, u) ==
    /\ pc[r] = "generateObject"
    /\ \E o \in u.objects, q \in Reqs :
        /\ documentMetadataSchema(o)
        /\ Ran(q, "pdf")
        /\ result' = [result EXCEPT ![r] = o]
        /\ Respond(r, Envelope(o, pdfData[q]), <<"envelope">>)
    /\ UNCHANGED <<form, file, pdfData, prompt, error>>

\* generateObject resolves with an object that passed the schema: the envelope
GenerateReturn(r, u) ==
    /\ pc[r] = "generateObject"
    /\ \E o \in u.objects :
        /\ documentMetadataSchema(o)
        /\ result' = [result EXCEPT ![r] = o]
        /\ Respond(r, Envelope(o, pdfData[r]), <<"envelope">>)
    /\ UNCHANGED <<form, file, pdfData, prompt, error>>

NoObjectGenerated ==
    [isError |-> TRUE, message |-> "No object generated: response did not match schema."]

\* generateObject rejects: the provider failed, or its answer failed the schema
GenerateThrow(r, u) ==
    /\ pc[r] = "generateObject"
    /\ \/ \E e \in u.errors : Throw(r, e)
       \/ /\ \E o \in u.objects : ~documentMetadataSchema(o)
          /\ Throw(r, NoObjectGenerated)
    /\ UNCHANGED <<form, file, pdfData, prompt, result>>

Init ==
    /\ pc = [r \in Reqs |-> "idle"]
    /\ form = [r \in Reqs |-> NoForm]
    /\ file = [r \in Reqs |-> Undefined]
    /\ pdfData = [r \in Reqs |-> NoPdfData]
    /\ prompt = [r \in Reqs |-> NoPrompt]
    /\ result = [r \in Reqs |-> NoObject]
    /\ error = [r \in Reqs |-> NoError]
    /\ response = [r \in Reqs |-> NoResponse]
    /\ trace = [r \in Reqs |-> <<>>]

Handle(u) ==
    \E r \in Reqs :
        \/ Receive(r, u)
        \/ ParseBodyReturn(r)
        \/ ParseBodyThrow(r)
        \/ ArrayBufferReturn(r)
        \/ PdfReturn(r, u)
        \/ PdfThrow(r, u)
        \/ GenerateReturn(r, u)
        \/ GenerateThrow(r, u)

\* concurrent requests, few inputs
Concurrent == Universe(Reqs, TwoNames, {"%PDF-1.7"}, TwoTexts, {5}, TwoObjects)
Next == Handle(Concurrent)
Spec == Init /\ [][Next]_vars

\* one request at a time, every file name
NextUploads == Handle(Universe({1}, AllNames, Contents, FewTexts, PageCounts, FewObjects))
SpecUploads == Init /\ [][NextUploads]_vars

\* one request at a time, every extracted text
NextTexts == Handle(Universe({1}, FewNames, Contents, AllTexts, PageCounts, FewObjects))
SpecTexts == Init /\ [][NextTexts]_vars

\* one request at a time, every generated object
NextObjects == Handle(Universe({1}, FewNames, Contents, FewTexts, PageCounts, AllObjects))
SpecObjects == Init /\ [][NextObjects]_vars

-----------------------------------------------------------------------------
(* What the claims speak of *)

LastStage(r) == trace[r][Len(trace[r])]
ErrorOnly(r) == DOMAIN response[r].body = {"error"}

\* the number of code units of a text, summed run by run
CodeUnits(t) ==
    LET sum[i \in 0..Len(t)] == IF i = 0 THEN 0 ELSE sum[i - 1] + t[i].n
    IN  sum[Len(t)]

\* the positions at which a run of t ends
RunEnds(t) ==
    LET sum[i \in 0..Len(t)] == IF i = 0 THEN 0 ELSE sum[i - 1] + t[i].n
    IN  {sum[i] : i \in 0..Len(t)}

\* the code unit at position i (from 1) of t
CodeUnitAt(t, i) ==
    LET sum[k \in 0..Len(t)] == IF k = 0 THEN 0 ELSE sum[k - 1] + t[k].n
        k == CHOOSE j \in 1..Len(t) : sum[j - 1] < i /\ i <= sum[j]
    IN  t[k].ch

\* d is the first len code units of t. Both are constant between two
\* consecutive run ends of either, so those positions decide it.
IsPrefix(d, t, len) ==
    /\ CodeUnits(d) = len
    /\ len <= CodeUnits(t)
    /\ \A e \in RunEnds(d) \cup RunEnds(t) :
        /\ (1 <= e /\ e <= len) => CodeUnitAt(d, e) = CodeUnitAt(t, e)
        /\ (e + 1 <= len) => CodeUnitAt(d, e + 1) = CodeUnitAt(t, e + 1)

Blank(t) == \A i \in 1..Len(t) : t[i].ch = " " \/ t[i].ch = "\n"

\* the name ends in .pdf, in any mix of upper and lower case
HasPdfSuffix(name) ==
    /\ name.defined
    /\ LET s == name.chars
           n == Len(name.chars)
       IN  /\ n >= 4
           /\ s[n - 3] = "."
           /\ s[n - 2] \in {"p", "P"}
           /\ s[n - 1] \in {"d", "D"}
           /\ s[n] \in {"f", "F"}

-----------------------------------------------------------------------------
(* C1: a request whose file field is absent or a plain string ends with    *)
(* MissingFile (400, body {error}), and neither pdf nor generateObject is  *)
(* called at any point of that request.                                    *)
NoFileField(r) ==
    /\ pc[r] # "idle"
    /\ form[r].wellFormed
    /\ form[r].file.kind \in {"undefined", "string"}

C1_MissingFile ==
    \A r \in Reqs : NoFileField(r) =>
        /\ ~Ran(r, "pdf") /\ ~Ran(r, "generateObject")
        /\ Done(r) =>
            /\ response[r].status = 400
            /\ ErrorOnly(r)
            /\ response[r].body.error = MissingFileMessage

C1_Witness ==
    /\ Done(1)
    /\ form[1].file = StringField("report.pdf")
    /\ response[1].status = 400

(* C2: a binary file whose name does not end in .pdf, case-insensitively   *)
(* (or that has no name), is answered UnsupportedFileType (400) before pdf *)
(* is called; a name ending in any case variant of .pdf passes the type    *)
(* check whatever the content.                                             *)
BinaryFile(r) ==
    /\ pc[r] # "idle"
    /\ form[r].wellFormed
    /\ form[r].file.kind = "File"

C2_TypeCheck ==
    \A r \in Reqs : BinaryFile(r) =>
        IF HasPdfSuffix(form[r].file.name)
        THEN pc[r] # "parseBody" =>
                /\ Ran(r, "arrayBuffer")
                /\ response[r].status # 400
        ELSE /\ ~Ran(r, "pdf")
             /\ Done(r) =>
                 /\ response[r].status = 400
                 /\ ErrorOnly(r)
                 /\ response[r].body.error = UnsupportedMessage

C2_Witness ==
    /\ Done(1)
    /\ form[1].file = File(Name(<<"f", ".", "P", "D">>), "%PDF-1.7")
    /\ response[1].status = 400
    /\ ~Ran(1, "pdf")

(* C3: when the extracted text is empty or only whitespace the request     *)
(* ends with NoTextContent (422, body {error}) and generateObject is never *)
(* called.                                                                 *)
C3_NoTextContent ==
    \A r \in Reqs : (Ran(r, "emptiness") /\ Blank(pdfData[r].text)) =>
        /\ Done(r)
        /\ response[r].status = 422
        /\ ErrorOnly(r)
        /\ response[r].body.error = NoTextMessage
        /\ ~Ran(r, "generateObject")

C3_Witness ==
    /\ Ran(1, "emptiness")
    /\ pdfData[1].text = <<[ch |-> " ", n |-> 15001], [ch |-> "\n", n |-> 1]>>
    /\ response[1].status = 422

(* C4, as claimed: when pdf or generateObject fails, the response is 500   *)
(* with a body {error} whose string includes the failure's message.        *)
CollaboratorFailed(r) ==
    /\ Done(r)
    /\ Len(trace[r]) >= 2
    /\ LastStage(r) = "catch"
    /\ trace[r][Len(trace[r]) - 1] \in {"pdf", "generateObject"}

C4_IncludesMessage ==
    \A r \in Reqs : CollaboratorFailed(r) =>
        /\ response[r].status = 500
        /\ ErrorOnly(r)
        /\ response[r].body.error[Len(response[r].body.error)] = error[r].message

(* C4, amended: when pdf or generateObject fails, the response is 500 with *)
(* a body {error} that reads "Failed to process PDF: " followed by the     *)
(* failure's message when the thrown value is an Error and by "Unknown     *)
(* error occurred" when it is not; requests that have not arrived yet are  *)
(* still accepted.                                                         *)
C4_CollaboratorFailure ==
    \A r \in Reqs : CollaboratorFailed(r) =>
        /\ response[r].status = 500
        /\ ErrorOnly(r)
        /\ response[r].body.error =
              IF error[r].isError
              THEN <<"Failed to process PDF: ", error[r].message>>
              ELSE <<"Failed to process PDF: ", "Unknown error occurred">>
        /\ \A q \in Reqs : pc[q] = "idle" => ENABLED Receive(q, Concurrent)

C4_Witness ==
    /\ CollaboratorFailed(1)
    /\ Ran(1, "generateObject")
    /\ ~error[1].isError
    /\ response[2].status = 200

(* C5: in a 200 response rawText is the whole text pdf returned and        *)
(* stats.textLength is its length, for texts shorter and longer than       *)
(* 15,000.                                                                 *)
C5_RawTextAndLength ==
    \A r \in Reqs : response[r].status = 200 =>
        /\ response[r].body.rawText = pdfData[r].text
        /\ response[r].body.stats.textLength = CodeUnits(response[r].body.rawText)

C5_Witness ==
    /\ response[1].status = 200
    /\ response[1].body.stats.textLength = 30001

(* C6, as claimed: the generator prompt equals the text when the text has  *)
(* at most 15,000 characters, and its first 15,000 characters otherwise.   *)
PromptIs(p, t, len) == p.head = "" /\ p.tail = "" /\ IsPrefix(p.doc, t, len)

C6_PromptIsText ==
    \A r \in Reqs : Ran(r, "generateObject") =>
        LET t == pdfData[r].text IN
        IF CodeUnits(t) <= 15000
        THEN PromptIs(prompt[r], t, CodeUnits(t))
        ELSE PromptIs(prompt[r], t, 15000)

(* C6, amended: the generator prompt is the fixed instruction text, then   *)
(* the whole text when it has at most 15,000 characters and its first      *)
(* 15,000 characters otherwise, then the closing "---" line.               *)
C6_PromptEmbedsText ==
    \A r \in Reqs : Ran(r, "generateObject") =>
        LET t == pdfData[r].text IN
        /\ prompt[r].head = PromptHead
        /\ prompt[r].tail = PromptTail
        /\ IF CodeUnits(t) <= 15000
           THEN IsPrefix(prompt[r].doc, t, CodeUnits(t))
           ELSE IsPrefix(prompt[r].doc, t, 15000)

C6_Witness ==
    /\ Ran(1, "generateObject")
    /\ pdfData[1].text = <<[ch |-> "a", n |-> 14999], [ch |-> "b", n |-> 15000]>>
    /\ prompt[1].doc = <<[ch |-> "a", n |-> 14999], [ch |-> "b", n |-> 1]>>

(* C7: in a 200 response metadata.documentType is one of the ten values of *)
(* the schema; an object with another documentType never reaches a 200.    *)
C7_DocumentType ==
    \A r \in Reqs : response[r].status = 200 =>
        /\ response[r].body.metadata.documentType.type = "string"
        /\ response[r].body.metadata.documentType.str \in
              {"report", "article", "letter", "contract", "manual",
               "presentation", "academic_paper", "invoice", "resume", "other"}

C7_Witness ==
    /\ response[1].status = 200
    /\ response[1].body.metadata.documentType = JStr("academic_paper")

(* C8: in a 200 response metadata.topics has 3 to 5 strings and            *)
(* metadata.keywords has 5 to 10 strings; an object outside those bounds   *)
(* is never returned with success = true.                                  *)
C8_ListBounds ==
    \A r \in Reqs : response[r].status = 200 =>
        /\ Len(response[r].body.metadata.topics.items) \in 3..5
        /\ Len(response[r].body.metadata.keywords.items) \in 5..10

(* C9: under any interleaving, a step of one request changes nothing of    *)
(* another request, and two requests with the same upload and the same     *)
(* collaborator results get the same response.                             *)
Local(r) ==
    <<pc[r], form[r], file[r], pdfData[r], prompt[r], result[r], error[r],
      response[r], trace[r]>>

SameInputs(r, q) ==
    /\ form[r] = form[q]
    /\ pdfData[r] = pdfData[q]
    /\ result[r] = result[q]
    /\ error[r] = error[q]

C9_Independent ==
    /\ [](\A r, q \in Reqs :
            (Done(r) /\ Done(q) /\ SameInputs(r, q)) => response[r] = response[q])
    /\ [][\E r \in Reqs : \A q \in Reqs \ {r} : Local(q)' = Local(q)]_vars

C9_Witness ==
    /\ response[1].status = 500
    /\ response[2].status = 200
    /\ form[1] = form[2]
    /\ pdfData[1] = pdfData[2]

(* C10: the stages of a request run in the fixed order; pdf is called at   *)
(* most once, generateObject at most once and only after pdf returned text *)
(* that is not blank; after a failed stage the request is over, with no    *)
(* further call and no retry.                                              *)
StageOrder ==
    <<"parseBody", "presence", "type", "arrayBuffer", "pdf", "emptiness",
      "generateObject", "envelope">>

Times(r, stage) == Cardinality({i \in 1..Len(trace[r]) : trace[r][i] = stage})

C10_LinearPipeline ==
    \A r \in Reqs :
        LET n == Len(trace[r])
            failed == n > 0 /\ trace[r][n] = "catch"
            run == IF failed THEN SubSeq(trace[r], 1, n - 1) ELSE trace[r]
        IN  /\ Len(run) <= Len(StageOrder)
            /\ run = SubSeq(StageOrder, 1, Len(run))
            /\ Times(r, "pdf") <= 1
            /\ Times(r, "generateObject") <= 1
            /\ Ran(r, "generateObject") =>
                  (Ran(r, "emptiness") /\ ~Blank(pdfData[r].text))
            /\ (failed \/ response[r].status \in {400, 422, 500}) => Done(r)

C10_Witness ==
    /\ Done(1)
    /\ trace[1] = <<"parseBody", "presence", "type", "arrayBuffer", "pdf", "emptiness",
                    "generateObject", "catch">>
    /\ Done(2)
    /\ trace[2] = StageOrder

====
